---- MODULE Spec2Model ----
(***************************************************************************)
(* Model of src/main.py: a FastAPI service with three endpoints,           *)
(*   GET /scrape/{username}  (rate-limited, cached Instagram profile)      *)
(*   GET /proxy-image/       (outbound image fetch)                        *)
(*   GET /health             (liveness and cache occupancy)                *)
(*                                                                         *)
(* The shared state is the TTLCache profile_cache (main.py:39), the        *)
(* slowapi limiter's counter storage (main.py:36) and the clock.  The      *)
(* service runs on one asyncio event loop.  get_instagram_profile has no   *)
(* await: instaloader.Profile.from_username (main.py:102) is a blocking    *)
(* call, so from its first statement to its return the handler holds the   *)
(* event loop and only the clock moves.  proxy_image awaits its outbound   *)
(* fetch (main.py:158) and releases the loop while it is pending.          *)
(***************************************************************************)
EXTENDS Integers, Sequences, FiniteSets, TLC

(***************************************************************************)
(* Program constants, scaled down so that the model is finite: the code's  *)
(* 1000 entries / 3600 s / 10 per 60 s become the values below; one tick   *)
(* of the clock stands for half a limiter window.                          *)
(***************************************************************************)
\* TTLCache(maxsize=1000, ...)                                 main.py:39
maxsize == 2
\* TTLCache(..., ttl=3600), in clock ticks                     main.py:39
ttl == 2
\* "10/minute": the amount of the limit                        main.py:88
LimitAmount == 2
\* "10/minute": the length of the window, in clock ticks       main.py:88
LimitWindow == 2

(***************************************************************************)
(* Bounds of the model.                                                    *)
(***************************************************************************)
\* the clock runs from 0 to MaxTime
MaxTime == 2
\* requests handled in one behaviour
MaxRequests == 4

\* client addresses (slowapi.util.get_remote_address)
Clients == {"c1", "c2"}
\* the {username} path parameter, as typed by the client
Usernames == {"a", "A", "b", "c"}
\* the url query parameter of /proxy-image/
Urls == {"img"}
\* the upstream's data for a profile changes: the versions it may return
Versions == {"v1", "v2"}

VARIABLES
    now,        \* the clock: the timers of the cache and of the limiter
    cache,      \* profile_cache: entries in the order of TTLCache's __links
    storage,    \* the limiter's counters: (address, path) -> count, expiry
    loop,       \* what holds the event loop: idle, or a running profile handler
    pending,    \* /proxy-image/ requests awaiting their outbound fetch
    resp,       \* the response delivered last
    nreq,       \* requests handled so far
    last,       \* history: per cache key, the last completed admitted profile request
    admitted    \* history: per limiter key, admissions in each of the last LimitWindow ticks

vars == <<now, cache, storage, loop, pending, resp, nreq, last, admitted>>

\* A variant that keeps the username as the client typed it.
lower_identity(u) == u

\* str.lower() on the usernames of the model                   main.py:92
lower(u) == IF u = "A" THEN "a" ELSE u

Keys == {lower(u) : u \in Usernames}

\* no record: the body of a response that carries no ProfileData
NoValue == [username |-> "-", version |-> "-"]

(***************************************************************************)
(* cachetools.TTLCache, as used through profile_cache (main.py:39).        *)
(* The cache is the sequence of its entries [key, value, expires] in the   *)
(* order of the OrderedDict __links: the head is the entry popitem()       *)
(* removes.  The timer is monotonic and ttl is one constant, so the        *)
(* expiry-ordered linked list holds the same entries sorted by expires,    *)
(* and expire(time) removes exactly those with expires <= time.            *)
(***************************************************************************)
Index(c, k) ==
    IF \E i \in 1..Len(c) : c[i].key = k
    THEN CHOOSE i \in 1..Len(c) : c[i].key = k
    ELSE 0

Without(c, k) == SelectSeq(c, LAMBDA e : e.key # k)

\* A variant that looks the key up without comparing its expiry to the timer.
contains_noexpiry(c, k, t) == \E i \in 1..Len(c) : c[i].key = k

\* TTLCache.__contains__: key in profile_cache                 main.py:92
contains(c, k, t) == \E i \in 1..Len(c) : c[i].key = k /\ t < c[i].expires

\* TTLCache.expire(time): drop the entries whose time has come
expire(c, t) == SelectSeq(c, LAMBDA e : t < e.expires)

\* A variant that leaves the order of __links alone: the eviction order
\* would be the order of insertion.
getlink_noreorder(c, k) == c

\* TTLCache.__getlink: look the link up and move it to the end of __links
getlink(c, k) ==
    IF Index(c, k) = 0 THEN c ELSE Append(Without(c, k), c[Index(c, k)])

\* TTLCache.__getitem__: profile_cache[key]                    main.py:94
\* found = FALSE is the KeyError of __missing__.
getitem(c, k, t) ==
    LET i == Index(c, k) IN
    [found |-> i # 0 /\ t < c[i].expires,
     value |-> IF i # 0 /\ t < c[i].expires THEN c[i].value ELSE NoValue,
     cache |-> getlink(c, k)]

\* TTLCache.popitem: expire, then remove the head of __links
popitem(c, t) == Tail(expire(c, t))

\* A variant that makes no room before it stores.
evict_none(c, t) == c

\* Cache.__setitem__: while currsize + size > maxsize: popitem()
RECURSIVE evict(_, _)
evict(c, t) == IF Len(c) + 1 > maxsize THEN evict(popitem(c, t), t) ELSE c

\* A variant that stores the entry without adding the ttl to its expiry.
setitem_nottl(c, k, v, t) ==
    LET c1 == expire(c, t)
        c2 == IF Index(c1, k) = 0 THEN evict(c1, t) ELSE c1
    IN  Append(Without(c2, k), [key |-> k, value |-> v, expires |-> t])

\* TTLCache.__setitem__: profile_cache[key] = value            main.py:126
setitem(c, k, v, t) ==
    LET c1 == expire(c, t)
        c2 == IF Index(c1, k) = 0 THEN evict(c1, t) ELSE c1
    IN  Append(Without(c2, k), [key |-> k, value |-> v, expires |-> t + ttl])

\* A variant that counts the entries whose TTL has run out as well.
len_withexpired(c, t) == Len(c)

\* TTLCache.__len__: len(profile_cache)                        main.py:176
len(c, t) == Len(expire(c, t))

(***************************************************************************)
(* slowapi.Limiter(key_func=get_remote_address) with the route limit       *)
(* "10/minute" (main.py:36, 88).  The defaults apply: the fixed-window     *)
(* strategy over the in-memory storage, and key_style "url", so a counter  *)
(* is kept per (remote address, request path) and /scrape/a and /scrape/b  *)
(* are counted apart.  A counter is created by the first hit, expires      *)
(* LimitWindow later and is then dropped by the storage (on its timer and  *)
(* on every read); hits beyond the amount still count, but do not move     *)
(* the expiry.                                                             *)
(***************************************************************************)
LimitKeys == Clients \X Usernames

NoCounter == [count |-> 0, expiry |-> 0]

\* MemoryStorage.get: an expired counter reads as absent
live(st, key, t) ==
    IF st[key].count > 0 /\ st[key].expiry <= t THEN NoCounter ELSE st[key]

\* A variant whose key leaves the address out: one hit counts for every
\* client asking for that path.
incr_shared(st, key, t) ==
    [k \in DOMAIN st |->
        IF k[2] = key[2]
        THEN LET e == live(st, k, t)
             IN  [count |-> e.count + 1,
                  expiry |-> IF e.count = 0 THEN t + LimitWindow ELSE e.expiry]
        ELSE st[k]]

\* MemoryStorage.incr(key, expiry)
incr(st, key, t) ==
    LET e == live(st, key, t)
        n == e.count + 1
    IN  [st EXCEPT ![key] =
            [count |-> n, expiry |-> IF n = 1 THEN t + LimitWindow ELSE e.expiry]]

\* A variant that admits one hit more than the amount.
hit_offbyone(st, key, t) == incr(st, key, t)[key].count <= LimitAmount + 1

\* FixedWindowRateLimiter.hit: storage.incr(...) <= amount     main.py:88
hit(st, key, t) == incr(st, key, t)[key].count <= LimitAmount

\* MemoryStorage's expiry timer: drop every expired counter
purge(st, t) == [key \in DOMAIN st |-> live(st, key, t)]


(***************************************************************************)
(* get_instagram_profile (main.py:88-147).                                 *)
(***************************************************************************)
\* what the upstream does with one Profile.from_username call  main.py:102
Outcomes == {"ok", "noid", "notexists", "connection", "instaloader", "exception"}

\* The exception that leaves the body of the outer try (main.py:91-128):
\* ProfileNotExistsException is turned into HTTPException(404) by the inner
\* handler (103-107), an empty userid raises HTTPException(404) (109-113).
raised(outcome) ==
    CASE outcome = "notexists"   -> "HTTPException"
      [] outcome = "noid"        -> "HTTPException"
      [] outcome = "connection"  -> "ConnectionException"
      [] outcome = "instaloader" -> "InstaloaderException"
      [] outcome = "exception"   -> "Exception"
      [] outcome = "keyerror"    -> "KeyError"
      [] OTHER                   -> "none"

\* A variant that tests InstaloaderException first: ConnectionException is a
\* subclass of it and would never reach its own clause.
except_chain_reordered(exc) ==
    CASE exc \in {"ConnectionException", "InstaloaderException"} ->
            [status |-> 500, error |-> "Instagram fetch failed"]
      [] OTHER ->
            [status |-> 500, error |-> "Internal error"]

\* The except clauses of the outer try, in their order (main.py:130-147).
\* HTTPException and KeyError are subclasses of Exception and of neither
\* instaloader class, so the last clause takes them.
except_chain(exc) ==
    CASE exc = "ConnectionException"  ->
            [status |-> 503, error |-> "Instagram connection failed"]
      [] exc = "InstaloaderException" ->
            [status |-> 500, error |-> "Instagram fetch failed"]
      [] OTHER ->
            [status |-> 500, error |-> "Internal error"]

\* ProfileData(...) built from the upstream's profile           main.py:115-123
ProfileData(k, v) == [username |-> k, version |-> v]

Idle == [pc |-> "idle", client |-> "-", path |-> "-"]

\* history: no profile request for the key has completed yet
NoFetch == [called |-> FALSE, body |-> NoValue, expires |-> 0]

(***************************************************************************)
(* The JSON body of a response is modelled by the paths of its members.    *)
(***************************************************************************)
\* the members of a JSON object built from a record
members(r) == {<<f>> : f \in DOMAIN r}

\* detail={"error": ..., "details": ...} of the handler's HTTPExceptions
\* (main.py:104-146): the members of ErrorResponse (main.py:57-59)
ErrorResponse == {<<"error">>, <<"details">>}

\* a detail that is a string: detail="Image fetch failed" (main.py:165) and
\* the text of the limit in slowapi's RateLimitExceeded
StringDetail == {}

\* FastAPI's handler for HTTPException, which the application does not
\* replace (main.py:23-24): JSONResponse({"detail": exc.detail})
http_exception_handler(detail) ==
    IF detail = StringDetail
    THEN {<<"detail">>}
    ELSE {<<"detail">> \o path : path \in detail}

NoResp ==
    [ep |-> "none", status |-> 0, error |-> "-", body |-> NoValue,
     upstream |-> "none", cache_size |-> -1, json |-> {}]

\* the response of a profile request; upstream is the outcome of the
\* upstream call the request made, "none" when it made no call.  A 200
\* carries the ProfileData, an error of the handler is an HTTPException
\* whose detail is an {"error", "details"} object (main.py:130-147).
ScrapeResp(status, error, body, upstream) ==
    [ep |-> "scrape", status |-> status, error |-> error, body |-> body,
     upstream |-> upstream, cache_size |-> -1,
     json |-> IF status = 200 THEN members(body)
              ELSE http_exception_handler(ErrorResponse)]

\* history: a completed profile request: whether it called the upstream, the
\* record it returned and the time at which that record's TTL ends
Fetched(called, body, expires) ==
    [called |-> called, body |-> body, expires |-> expires]

ExpiresOf(c, k) == IF Index(c, k) = 0 THEN 0 ELSE c[Index(c, k)].expires

Init ==
    /\ now = 0
    /\ cache = <<>>
    /\ storage = [key \in LimitKeys |-> NoCounter]
    /\ loop = Idle
    /\ pending = {}
    /\ resp = NoResp
    /\ nreq = 0
    /\ last = [k \in Keys |-> NoFetch]
    /\ admitted = [key \in LimitKeys |-> [i \in 1..LimitWindow |-> 0]]

\* A variant with the limiter applied below the cache check: a request over
\* the amount for a cached username is still served from the cache.
ScrapeRejected_cache_first(c, u) ==
    /\ loop.pc = "idle"
    /\ nreq < MaxRequests
    /\ ~hit(storage, <<c, u>>, now)
    /\ storage' = incr(storage, <<c, u>>, now)
    /\ IF contains(cache, lower(u), now)
       THEN /\ cache' = getitem(cache, lower(u), now).cache
            /\ resp' = ScrapeResp(200, "-", getitem(cache, lower(u), now).value, "none")
       ELSE /\ cache' = cache
            /\ resp' = [ScrapeResp(429, "10 per 1 minute", NoValue, "none")
                          EXCEPT !.json = http_exception_handler(StringDetail)]
    /\ nreq' = nreq + 1
    /\ UNCHANGED <<now, loop, pending, last, admitted>>

\* The limiter's wrapper and the cache check (main.py:88-92): the hit is
\* counted; beyond the amount RateLimitExceeded (an HTTPException, 429)
\* leaves the wrapper and the handler's body never runs.  Its detail is the
\* text of the limit.
ScrapeRejected(c, u) ==
    /\ loop.pc = "idle"
    /\ nreq < MaxRequests
    /\ ~hit(storage, <<c, u>>, now)
    /\ storage' = incr(storage, <<c, u>>, now)
    /\ resp' = [ScrapeResp(429, "10 per 1 minute", NoValue, "none")
                  EXCEPT !.json = http_exception_handler(StringDetail)]
    /\ nreq' = nreq + 1
    /\ UNCHANGED <<now, cache, loop, pending, last, admitted>>

ScrapeAdmitted(c, u) ==
    /\ loop.pc = "idle"
    /\ nreq < MaxRequests
    /\ hit(storage, <<c, u>>, now)
    /\ storage' = incr(storage, <<c, u>>, now)
    /\ admitted' = [admitted EXCEPT ![<<c, u>>][1] = @ + 1]
    /\ loop' = [pc |-> IF contains(cache, lower(u), now) THEN "read" ELSE "fetch",
                client |-> c, path |-> u]
    /\ nreq' = nreq + 1
    /\ UNCHANGED <<now, cache, pending, resp, last>>

\* The cache hit: return profile_cache[username.lower()] (main.py:93-94);
\* a KeyError of the read is taken by except Exception (142-147).
ScrapeRead ==
    /\ loop.pc = "read"
    /\ LET k == lower(loop.path)
           r == getitem(cache, k, now)
           e == except_chain(raised("keyerror"))
       IN  /\ cache' = r.cache
           /\ resp' = IF r.found
                      THEN ScrapeResp(200, "-", r.value, "none")
                      ELSE ScrapeResp(e.status, e.error, NoValue, "none")
           /\ last' = [last EXCEPT ![k] =
                         Fetched(FALSE, r.value,
                                 IF r.found THEN last[k].expires ELSE 0)]
    /\ loop' = Idle
    /\ UNCHANGED <<now, storage, pending, nreq, admitted>>

\* A variant that stores the record before it looks at the userid: a
\* profile without identity is answered with an error and cached all the same.
ScrapeFetch_store_first(outcome, v) ==
    /\ loop.pc = "fetch"
    /\ LET k == lower(loop.path)
           e == except_chain(raised(outcome))
       IN  /\ cache' = IF outcome \in {"ok", "noid"}
                       THEN setitem(cache, k, ProfileData(k, v), now)
                       ELSE cache
           /\ IF raised(outcome) = "none"
              THEN /\ resp' = ScrapeResp(200, "-", ProfileData(k, v), outcome)
                   /\ last' = [last EXCEPT ![k] =
                                 Fetched(TRUE, ProfileData(k, v), now + ttl)]
              ELSE /\ resp' = ScrapeResp(e.status, e.error, NoValue, outcome)
                   /\ last' = [last EXCEPT ![k] =
                                 Fetched(TRUE, NoValue, 0)]
    /\ loop' = Idle
    /\ UNCHANGED <<now, storage, pending, nreq, admitted>>

\* The cache miss: one upstream call, then the cache write and the 200, or
\* the translation of whatever was raised (main.py:96-147).
ScrapeFetch(outcome, v) ==
    /\ loop.pc = "fetch"
    /\ LET k == lower(loop.path)
           e == except_chain(raised(outcome))
       IN  IF raised(outcome) = "none"
           THEN /\ cache' = setitem(cache, k, ProfileData(k, v), now)
                /\ resp' = ScrapeResp(200, "-", ProfileData(k, v), outcome)
                /\ last' = [last EXCEPT ![k] =
                              Fetched(TRUE, ProfileData(k, v), now + ttl)]
           ELSE /\ cache' = cache
                /\ resp' = ScrapeResp(e.status, e.error, NoValue, outcome)
                /\ last' = [last EXCEPT ![k] =
                              Fetched(TRUE, NoValue, 0)]
    /\ loop' = Idle
    /\ UNCHANGED <<now, storage, pending, nreq, admitted>>

(***************************************************************************)
(* proxy_image (main.py:149-165): the handler awaits client.get and the    *)
(* loop is free meanwhile.  httpx raises for a transport error or a        *)
(* timeout; a response of any status is returned without raise_for_status  *)
(* and is streamed back in a StreamingResponse, whose status is 200.       *)
(***************************************************************************)
ProxyOutcomes == {"2xx", "non2xx", "network", "timeout"}

\* client.get(url): does it raise?                              main.py:158
get_raises(outcome) == outcome \in {"network", "timeout"}

ProxyStart(url) ==
    /\ loop.pc = "idle"
    /\ nreq < MaxRequests
    /\ url \notin pending
    /\ pending' = pending \cup {url}
    /\ nreq' = nreq + 1
    /\ UNCHANGED <<now, cache, storage, loop, resp, last, admitted>>

ProxyFinish(url, outcome) ==
    /\ loop.pc = "idle"
    /\ url \in pending
    /\ pending' = pending \ {url}
    /\ resp' = [NoResp EXCEPT
                  !.ep = "proxy", !.upstream = outcome,
                  !.status = IF get_raises(outcome) THEN 500 ELSE 200,
                  !.error = IF get_raises(outcome) THEN "Image fetch failed" ELSE "-",
                  !.json = IF get_raises(outcome)
                           THEN http_exception_handler(StringDetail) ELSE {}]
    /\ UNCHANGED <<now, cache, storage, loop, nreq, last, admitted>>

\* the members of the health check's answer                    main.py:173-177
HealthBody == {<<"status">>, <<"timestamp">>, <<"cache_size">>}

\* A variant with the route limit on the health check as well.
Health_limited ==
    /\ loop.pc = "idle"
    /\ nreq < MaxRequests
    /\ storage' = incr(storage, <<"c1", "a">>, now)
    /\ resp' = [NoResp EXCEPT !.ep = "health",
                              !.status = IF hit(storage, <<"c1", "a">>, now)
                                         THEN 200 ELSE 429,
                              !.cache_size = len(cache, now),
                              !.json = HealthBody]
    /\ nreq' = nreq + 1
    /\ UNCHANGED <<now, cache, loop, pending, last, admitted>>

\* health_check (main.py:171-177)
Health ==
    /\ loop.pc = "idle"
    /\ nreq < MaxRequests
    /\ resp' = [NoResp EXCEPT !.ep = "health", !.status = 200,
                              !.cache_size = len(cache, now),
                              !.json = HealthBody]
    /\ nreq' = nreq + 1
    /\ UNCHANGED <<now, cache, storage, loop, pending, last, admitted>>

\* Time passes, also while a handler holds the loop.
Tick ==
    /\ now < MaxTime
    /\ now' = now + 1
    /\ storage' = purge(storage, now + 1)
    /\ admitted' = [key \in LimitKeys |->
                      [i \in 1..LimitWindow |-> IF i = 1 THEN 0 ELSE admitted[key][i - 1]]]
    /\ UNCHANGED <<cache, loop, pending, resp, nreq, last>>

\* The profile requests of the clients Cs for the usernames Us, with the
\* upstream answering in one of the ways Os.
Profile(Cs, Us, Os) ==
    \/ \E c \in Cs, u \in Us : ScrapeRejected(c, u)
    \/ \E c \in Cs, u \in Us : ScrapeAdmitted(c, u)
    \/ ScrapeRead
    \/ \E o \in Os, v \in Versions : ScrapeFetch(o, v)

\* The image proxy's requests.
Proxy ==
    \/ \E url \in Urls : ProxyStart(url)
    \/ \E url \in Urls, o \in ProxyOutcomes : ProxyFinish(url, o)

\* One client asking for more usernames than the cache has room for; the
\* upstream answers with a profile or fails to connect.
Next ==
    \/ Profile({"c1"}, {"a", "b", "c"}, {"ok", "connection"})
    \/ Health
    \/ Tick

Spec == Init /\ [][Next]_vars

\* Two clients asking for one username in two spellings (two request
\* paths), every outcome of the upstream call, and the image proxy.
NextLimit ==
    \/ Profile(Clients, {"a", "A"}, Outcomes)
    \/ Proxy
    \/ Health
    \/ Tick

SpecLimit == Init /\ [][NextLimit]_vars

(***************************************************************************)
(* Properties.                                                             *)
(***************************************************************************)

\* C1: a profile request whose upstream call reports that the profile does
\* not exist, or returns a profile with an empty userid, is answered with
\* 404 "Profile not found".
C1_NotFoundIs404 ==
    resp.ep = "scrape" /\ resp.upstream \in {"notexists", "noid"}
        => resp.status = 404 /\ resp.error = "Profile not found"

\* C6: for a profile request that called the upstream, a connection failure
\* gives 503 "Instagram connection failed", another instaloader failure gives
\* 500 "Instagram fetch failed", any other exception gives 500 "Internal
\* error", and 200 is given only when the call returned a profile with a
\* userid.
C6_UpstreamOutcomeDecides ==
    resp.ep = "scrape" /\ resp.upstream # "none"
        => /\ resp.upstream = "connection"
                => resp.status = 503 /\ resp.error = "Instagram connection failed"
           /\ resp.upstream = "instaloader"
                => resp.status = 500 /\ resp.error = "Instagram fetch failed"
           /\ resp.upstream = "exception"
                => resp.status = 500 /\ resp.error = "Internal error"
           /\ resp.status = 200 => resp.upstream = "ok"

\* a connection failure of the upstream has been answered
C6_Witness ==
    resp.ep = "scrape" /\ resp.upstream = "connection" /\ resp.status = 503

\* C10: the image proxy answers 500 "Image fetch failed" whenever the
\* outbound fetch fails (network error, timeout, non-2xx status), and 200
\* only when the fetch was answered with a 2xx status.
C10_ProxyFailureIs500 ==
    resp.ep = "proxy"
        => /\ resp.upstream # "2xx"
                => resp.status = 500 /\ resp.error = "Image fetch failed"
           /\ resp.status = 200 => resp.upstream = "2xx"


(***************************************************************************)
(* Steps and sums the properties below speak of.                           *)
(***************************************************************************)
\* a step that completes an admitted profile request for cache key k
Completes(k) ==
    loop.pc \in {"read", "fetch"} /\ loop'.pc = "idle" /\ lower(loop.path) = k

\* a step that admits a profile request of client c
Admits(c) == loop.pc = "idle" /\ loop'.pc # "idle" /\ loop'.client = c

\* a step in which the limiter counts a hit beyond the amount
OverAmount ==
    \E key \in LimitKeys :
        storage'[key].count # storage[key].count /\ storage'[key].count > LimitAmount

RECURSIVE SumTo(_, _)
SumTo(f, n) == IF n = 0 THEN 0 ELSE f[n] + SumTo(f, n - 1)

\* admissions under a limiter key in the last LimitWindow ticks
InInterval(key) == SumTo(admitted[key], LimitWindow)

\* admissions under a limiter key since its current counter was created
InWindow(key) ==
    IF live(storage, key, now).count = 0 THEN 0
    ELSE SumTo(admitted[key], now - (storage[key].expiry - LimitWindow) + 1)

\* the cache holds an entry for k whose TTL has run out
HoldsExpired(c, k, t) == Index(c, k) # 0 /\ ExpiresOf(c, k) <= t

\* C2: two profile fetches for U within the TTL window issue the upstream
\* call at most once in total, and the second returns a value equal to the
\* first.  Read in the claim's favour: the first fetch returned a record, the
\* window runs from the time that record was stored, and the second fetch is
\* the next one for U.
C2_TwoFetchesOneCall ==
    [][\A k \in Keys :
          Completes(k) /\ last[k].body # NoValue /\ now < last[k].expires
              => /\ ~(last[k].called /\ last'[k].called)
                 /\ resp'.body = last[k].body]_vars

\* C2, amended: if a profile fetch for U returned a record, and the next
\* fetch for U completes before that record's TTL has run out and while its
\* entry has not been evicted to make room, then that next fetch issues no
\* upstream call and returns a record equal to the first.
C2_Amended ==
    [][\A k \in Keys :
          Completes(k) /\ last[k].body # NoValue /\ now < last[k].expires
                       /\ Index(cache, k) # 0
              => /\ ~last'[k].called
                 /\ resp'.upstream = "none"
                 /\ resp'.status = 200
                 /\ resp'.body = last[k].body]_vars

\* a profile request has been served from the cache
C2_Witness ==
    /\ resp.ep = "scrape" /\ resp.status = 200 /\ resp.upstream = "none"
    /\ \E k \in Keys : last[k].body = resp.body /\ ~last[k].called

\* C3: no entry is served once its TTL has run out: every entry expires at
\* most ttl after it was stored, an admitted profile request that finds the
\* entry of its username expired (though still in the cache) goes to the
\* upstream, a request that goes to the upstream issues the call, and a
\* record is returned from the cache only before its expiry.
C3_ExpiredNeverServed ==
    [][/\ \A i \in 1..Len(cache') : cache'[i].expires <= now' + ttl
       /\ \A c \in Clients :
            Admits(c) /\ HoldsExpired(cache, lower(loop'.path), now)
                => loop'.pc = "fetch"
       /\ \A k \in Keys :
            Completes(k) /\ loop.pc = "fetch"
                => resp'.upstream # "none" /\ last'[k].called
       /\ \A k \in Keys :
            Completes(k) /\ loop.pc = "read" /\ resp'.status = 200
                => now < ExpiresOf(cache, k)]_vars

\* a request is on its way to the upstream while the expired entry of its
\* username still occupies a slot
C3_Witness ==
    loop.pc = "fetch" /\ HoldsExpired(cache, lower(loop.path), now)

\* C4: once LimitAmount profile requests of a client have been admitted in
\* the current window, every further profile request of that client in that
\* window is rejected.
C4_QuotaPerClient ==
    [][\A c \in Clients :
          (\E u \in Usernames : live(storage, <<c, u>>, now).count >= LimitAmount)
              => ~Admits(c)]_vars

\* C5: the quota is rolling: any LimitWindow consecutive ticks hold at most
\* LimitAmount admitted requests.  Stated per client and request path, which
\* is how the limiter counts and is implied by the claim's count per client.
C5_RollingQuota ==
    \A key \in LimitKeys : InInterval(key) <= LimitAmount

\* C5, amended: the quota is per fixed window, not rolling.  For every client
\* address and request path a window opens with the first request after the
\* previous window ran out and lasts LimitWindow; at most LimitAmount
\* requests are admitted in one window, so an interval of length LimitWindow
\* that straddles two windows holds up to 2 * LimitAmount - 1 of them.
C5_Amended ==
    \A key \in LimitKeys :
        /\ InWindow(key) <= LimitAmount
        /\ InInterval(key) <= 2 * LimitAmount - 1

\* an interval that straddles two windows holds more than LimitAmount admissions
C5_Witness ==
    \E key \in LimitKeys : InInterval(key) = 2 * LimitAmount - 1

\* C7: the cache never holds more entries than its capacity.
C7_CacheBounded == Len(cache) <= maxsize

\* the cache is full and an unexpired entry has been evicted to make room
C7_Witness ==
    /\ Len(cache) = maxsize
    /\ \E k \in Keys :
          last[k].body # NoValue /\ now < last[k].expires /\ Index(cache, k) = 0

\* C8: the limiter's gate comes before the cache check: every profile request
\* that enters the handler has been counted by the limiter, and a request
\* counted beyond the amount is answered 429 without a record, starts no
\* handler (no cache read, no upstream call) and leaves the cache as it was.
C8_RejectedDoesNoWork ==
    [][/\ OverAmount
            => /\ resp'.ep = "scrape" /\ resp'.status = 429
               /\ resp'.body = NoValue /\ resp'.upstream = "none"
               /\ cache' = cache /\ loop' = loop /\ last' = last
       /\ \A c \in Clients :
            Admits(c)
                => /\ storage'[<<c, loop'.path>>].count
                        = live(storage, <<c, loop'.path>>, now).count + 1
                   /\ cache' = cache]_vars

\* a request for a username that is in the cache has been rejected
C8_Witness ==
    /\ resp.ep = "scrape" /\ resp.status = 429
    /\ \E key \in LimitKeys :
          storage[key].count > LimitAmount /\ contains(cache, lower(key[2]), now)

\* C9: a /health or /proxy-image/ request is never answered 429 and changes
\* no counter of the limiter.
C9_HealthProxyUnlimited ==
    [][/\ resp'.ep = "health" /\ nreq' = nreq + 1 /\ loop' = loop
            => /\ storage' = storage
               /\ admitted' = admitted
               /\ resp'.status = 200
       /\ pending' # pending
            => /\ storage' = storage
               /\ admitted' = admitted
               /\ resp' = resp \/ (resp'.ep = "proxy" /\ resp'.status # 429)]_vars

\* a health check has been answered while a client is over its amount
C9_Witness ==
    /\ resp.ep = "health" /\ resp.status = 200
    /\ \E key \in LimitKeys : storage[key].count > LimitAmount

\* C11: while the upstream call of one profile request is in flight, the
\* service can still start other requests: a /health request is taken up in
\* every state in which a profile handler is at its upstream call (and the
\* request budget of the model is not used up).
C11_FetchSuspendsOnlyItsRequest ==
    loop.pc = "fetch" /\ nreq < MaxRequests => ENABLED Health

\* usernames that differ only in letter case
SameName(u, w) == u = w \/ {u, w} = {"a", "A"}

\* a username with an upper-case letter
HasUpperCase(u) == u = "A"

HealthStep == resp'.ep = "health" /\ nreq' = nreq + 1 /\ loop' = loop

C14_ErrorBodyShape ==
    resp.ep # "none" /\ resp.status # 200
        => resp.json \in {ErrorResponse, http_exception_handler(ErrorResponse)}

\* the entries of the cache, whatever their order in __links
Contents(c) == {c[i] : i \in 1..Len(c)}

\* a step that delivers the response of a profile request
Responds == (loop.pc # "idle" /\ loop'.pc = "idle") \/ OverAmount

\* C15: a profile request that ends in an error response leaves the cache
\* as it was: the same entries, and the unexpired ones in the same order.
\* An entry is inserted only by the completion of a request whose upstream
\* call returned a profile with a userid: it is stored under that request's
\* key and holds the record the request returns with its 200.
C15_ErrorsLeaveCache ==
    [][/\ Responds /\ resp'.status # 200
            => /\ Contents(cache') = Contents(cache)
               /\ expire(cache', now') = expire(cache, now)
       /\ \A e \in Contents(cache') \ Contents(cache) :
            /\ loop.pc = "fetch" /\ loop'.pc = "idle"
            /\ resp'.status = 200 /\ resp'.upstream = "ok"
            /\ e.key = lower(loop.path) /\ e.value = resp'.body
            /\ e.value # NoValue]_vars

\* an upstream call that found no profile, or one without userid, has been
\* answered with an error while the cache holds entries
C15_Witness ==
    /\ resp.ep = "scrape" /\ resp.status # 200
    /\ resp.upstream \in {"notexists", "noid"}
    /\ Len(cache) > 0
    /\ \E u \in Usernames : ~contains(cache, lower(u), now) /\ last[lower(u)].called

\* a step that stores the record of a fetched profile under the new key k
\* while the cache holds maxsize entries, all unexpired
InsertsWhenFull(k) ==
    /\ Completes(k) /\ loop.pc = "fetch" /\ resp'.status = 200
    /\ Len(cache) = maxsize /\ Index(cache, k) = 0
    /\ \A i \in 1..Len(cache) : now < cache[i].expires

\* C16: when the cache holds maxsize unexpired entries, the insertion of a
\* new key evicts exactly one entry, the least recently inserted one (no
\* entry that stays was inserted before the evicted one), and leaves the
\* others in place.
C16_EvictsOldestInserted ==
    [][\A k \in Keys :
          InsertsWhenFull(k)
              => \E e \in Contents(cache) :
                    /\ Contents(cache') = (Contents(cache) \ {e}) \cup {cache'[Len(cache')]}
                    /\ cache'[Len(cache')].key = k
                    /\ \A f \in Contents(cache) : e.expires <= f.expires]_vars

\* C16, amended: the eviction order is the order of last use.  A cache hit
\* moves the entry it reads behind all others and leaves the order of the
\* others; when the cache holds maxsize unexpired entries, the insertion of
\* a new key evicts exactly the entry at the head of that order, appends the
\* new entry with a full TTL and leaves the others in place.
C16_Amended ==
    [][\A k \in Keys :
          /\ Completes(k) /\ loop.pc = "read" /\ resp'.status = 200
                => /\ cache'[Len(cache')].key = k
                   /\ Contents(cache') = Contents(cache)
                   /\ Without(cache', k) = Without(cache, k)
          /\ InsertsWhenFull(k)
                => /\ Len(cache') = maxsize
                   /\ SubSeq(cache', 1, maxsize - 1) = Tail(cache)
                   /\ cache'[maxsize] = [key |-> k, value |-> resp'.body,
                                         expires |-> now + ttl]]_vars

\* the cache is full, and an entry has been evicted while an entry that was
\* inserted before it is still there
C16_Witness ==
    /\ Len(cache) = maxsize
    /\ \E k \in Keys :
          /\ last[k].body # NoValue /\ now < last[k].expires /\ Index(cache, k) = 0
          /\ \E i \in 1..Len(cache) :
                cache[i].expires < last[k].expires /\ now < cache[i].expires

\* C17: concurrent cache misses are not coalesced, so two requests for one
\* uncached username can both miss and both call the upstream: while a
\* request that missed is at its upstream call, a second request for the
\* same username (of a client within its amount) can be taken up, and it
\* misses as well.
C17_SecondMissDuringFetch ==
    loop.pc = "fetch" /\ nreq < MaxRequests
        => \A c \in Clients :
              hit(storage, <<c, loop.path>>, now)
                  => ENABLED (ScrapeAdmitted(c, loop.path) /\ loop'.pc = "fetch")

\* C18: a profile request whose membership check found the key is answered
\* 200 with the record of the entry and never with an error, also when the
\* entry's TTL runs out between the check and the read.
C18_HitAlwaysServed ==
    [][\A k \in Keys :
          Completes(k) /\ loop.pc = "read"
              => /\ resp'.status = 200 /\ resp'.upstream = "none"
                 /\ Index(cache, k) # 0
                 /\ resp'.body = cache[Index(cache, k)].value]_vars

\* the limiter's counters of one client address
Own(st, c) == [u \in Usernames |-> st[<<c, u>>]]

\* the limiter's storage of a run in which only client c has made requests
Alone(st, c) == [key \in DOMAIN st |-> IF key[1] = c THEN st[key] ELSE NoCounter]

\* a step that enters the handler, for the request of loop'.client
Admitting == loop.pc = "idle" /\ loop'.pc # "idle"

\* a step that answers a profile request with 429
Rejecting == resp'.status = 429 /\ nreq' = nreq + 1 /\ loop' = loop

\* the counters after a request of client c for path u: those of c as in a
\* run without the other clients, those of the others as they were
AfterRequest(c, u) ==
    /\ Own(storage', c) = Own(incr(Alone(storage, c), <<c, u>>, now), c)
    /\ \A d \in Clients \ {c} : Own(storage', d) = Own(storage, d)

\* C19: the limiter's decisions for one client do not depend on the other
\* clients.  The decision on a request of client c, and the counters of c
\* after it, are those of a run in which no other client has made a
\* request; a request of another client leaves the counters of c as they
\* are; the clock changes the counters of c as it would in that run; and no
\* other step changes a counter.
C19_ClientsIndependent ==
    [][/\ Admitting
            => /\ hit(Alone(storage, loop'.client), <<loop'.client, loop'.path>>, now)
               /\ AfterRequest(loop'.client, loop'.path)
       /\ Rejecting
            => \A c \in Clients, u \in Usernames :
                  ScrapeRejected(c, u)
                      => /\ ~hit(Alone(storage, c), <<c, u>>, now)
                         /\ AfterRequest(c, u)
       /\ now' # now
            => \A c \in Clients :
                  Own(storage', c) = Own(purge(Alone(storage, c), now'), c)
       /\ ~Admitting /\ ~Rejecting /\ now' = now
            => storage' = storage]_vars

\* a request of one client has been rejected, and the next request, of the
\* other client for the same path, is admitted
C19_Witness ==
    /\ resp.ep = "scrape" /\ resp.status = 429
    /\ loop.pc # "idle"
    /\ \E c \in Clients :
          /\ c # loop.client
          /\ storage[<<c, loop.path>>].count > LimitAmount
          /\ storage[<<loop.client, loop.path>>].count = 1

====
